---- MODULE Spec2Model ----
(***************************************************************************)
(* Model of the go-driver cluster connection (cluster/cluster.go) and of   *)
(* the batched document operations of a collection (collection_impl.go).   *)
(*                                                                         *)
(* Part 1: clusterConnection - NewConnection, Do, getCurrentServer and     *)
(*         getNextServer, run by several concurrent callers.               *)
(* Part 2: CreateDocuments / UpdateDocuments and parseResponseArray.       *)
(* Part 3: ReadDocument, CreateDocument, UpdateDocument, ReplaceDocument    *)
(*         and RemoveDocument.                                             *)
(***************************************************************************)
EXTENDS Integers, Sequences, FiniteSets, TLC

(* ------------------------------ bounds -------------------------------- *)
\* Largest number of servers handed to NewConnection when one goroutine uses
\* the connection.
MaxServers == 4
\* Largest number of servers handed to NewConnection when the connection is
\* shared by several goroutines.
MaxSharedServers == 2
\* Number of goroutines calling Do on the same connection.
MaxCallers == 2
\* Total number of Do calls started on the connection.
MaxCalls == 2
\* Largest number of documents in a batched call and of elements in the
\* array a server answers with.
MaxItems == 3

(* ------------------------- program constants -------------------------- *)
\* const defaultTimeout = time.Minute (in seconds).
defaultTimeout == 60

Callers == 1..MaxCallers

VARIABLES
    connState,      \* "none" before NewConnection, then "ok" or "error"
    nArg,           \* len(servers) as passed to NewConnection (-1 before the call)
    tArg,           \* config.DefaultTimeout as passed to NewConnection (-1 before the call)
    newErr,         \* error returned by NewConnection ("nil" or "InvalidArgument")
    servers,        \* len(c.servers)
    current,        \* c.current
    connTimeout,    \* c.defaultTimeout
    healthy,        \* environment: index of the only healthy server, or -1 (any behaviour)
    callers,        \* the goroutines that use the connection
    calls,          \* number of Do calls started so far
    pc,             \* per caller: "idle", "attempt", "rotate", "done"; with the steps of
                    \* c.mutex made visible also "rlock", "read" and "locked"
    s,              \* per caller: index of the server held in local s
    attempt,        \* per caller: local attempt
    tried,          \* per caller: servers on which s.Do was called, in order
    startCur,       \* per caller: value of c.current read by getCurrentServer
    rot,            \* per caller: number of getNextServer calls of this Do
    curAtRot,       \* per caller: value of c.current right after each getNextServer
    okAt,           \* per caller: attempt that succeeded (0: none)
    writtenAt,      \* per caller: attempt that failed with req.Written() true (0: none)
    cancelAt,       \* per caller: attempt that failed with a canceled error (0: none)
    prefails,       \* per caller: attempts that failed, uncanceled, before req was written
    ret,            \* per caller: what Do returned
    deadline,       \* per caller: the deadline of the ctx given to Do
    timeout,        \* per caller: local timeout
    timeoutDivider, \* per caller: local timeoutDivider
    given,          \* per caller: the timeouts given to the attempts, in order
    readers,        \* c.mutex: the callers that hold it for reading (RLock)
    writer,         \* c.mutex: the caller that holds it for writing (Lock), or 0
    bpc,            \* batched call: "idle" or "done"
    bop,            \* batched call: "none", "create" or "update"
    bin,            \* batched call: its arguments and context settings
    benv,           \* batched call: what connection, request and response did
    bout,           \* batched call: what it handed back
    din,            \* singular call: its arguments and context settings
    denv,           \* singular call: what connection, request and response did
    dout            \* singular call: what it handed back

connVars == <<connState, nArg, tArg, newErr, servers, current, connTimeout, healthy>>
callVars == <<callers, calls, pc, s, attempt, tried, startCur, rot, curAtRot,
              okAt, writtenAt, cancelAt, prefails, ret,
              deadline, timeout, timeoutDivider, given, readers, writer>>
batchVars == <<bpc, bop, bin, benv, bout>>
docVars == <<din, denv, dout>>

(* ------------------------------ errors -------------------------------- *)
\* Values of the (resp, err) pair returned by a server's Do and by Do itself.
\* kind: "nil" (success), "canceled" (driver.IsCanceled), "arango"
\* (driver.IsArangoError) or "other"; written is req.Written() after the
\* attempt; respErr says the error is wrapped in a driver.ResponseError;
\* server/att identify the attempt that produced the value.
NoRet == [kind |-> "none", written |-> FALSE, respErr |-> FALSE, server |-> -1, att |-> 0]

Outcome(kind, written, srv, att) ==
    [kind |-> kind, written |-> written, respErr |-> FALSE, server |-> srv, att |-> att]

\* driver.WithStack keeps the error and its classification.
WithStack(err) == err

\* &driver.ResponseError{Err: err}
ResponseError(err) == [err EXCEPT !.respErr = TRUE]

\* What server srv may answer to an attempt. A caller-side cancellation can
\* end any attempt. With healthy = -1 servers behave arbitrarily; otherwise
\* server `healthy` accepts every request and every other server fails before
\* the request is written.
Outcomes(srv, att) ==
    LET cancels == {Outcome("canceled", w, srv, att) : w \in BOOLEAN}
    IN  IF healthy = -1
        THEN cancels \cup {Outcome("nil", TRUE, srv, att)}
                     \cup {Outcome(k, w, srv, att) : k \in {"arango", "other"}, w \in BOOLEAN}
        ELSE IF srv = healthy
        THEN cancels \cup {Outcome("nil", TRUE, srv, att)}
        ELSE cancels \cup {Outcome("other", FALSE, srv, att)}

(* --------------------------- NewConnection ---------------------------- *)
\* NewConnection(config, servers...) with n servers and config.DefaultTimeout
\* = cfgTimeout; h fixes the behaviour of the servers handed in.
\* Variant: the empty server list is not rejected.
NewConnResultNoCheck(n, cfgTimeout) ==
    [state |-> "ok", err |-> "nil", servers |-> n,
     timeout |-> IF cfgTimeout = 0 THEN defaultTimeout ELSE cfgTimeout]

NewConnResult(n, cfgTimeout) ==
    IF n = 0
    THEN [state |-> "error", err |-> "InvalidArgument", servers |-> 0, timeout |-> 0]
    ELSE [state |-> "ok", err |-> "nil", servers |-> n,
          timeout |-> IF cfgTimeout = 0 THEN defaultTimeout ELSE cfgTimeout]

NewConnection(n, cfgTimeout, h) ==
    /\ connState = "none"
    /\ nArg' = n
    /\ tArg' = cfgTimeout
    /\ LET r == NewConnResult(n, cfgTimeout) IN
       /\ connState' = r.state
       /\ newErr' = r.err
       /\ servers' = r.servers
       /\ connTimeout' = r.timeout
    /\ current' = 0
    /\ healthy' = h
    /\ UNCHANGED <<callVars, batchVars, docVars>>

(* ------------------------------- Do ----------------------------------- *)
\* (c.current + 1) % len(c.servers)
\* Variant: the cursor skips a server.
NextIndexSkip(cur, n) == (cur + 2) % n

\* Variant: the cursor stops at the last server instead of wrapping.
NextIndexNoWrap(cur, n) == IF cur + 1 < n THEN cur + 1 ELSE cur

\* Variant: the cursor is incremented without the modulo.
NextIndexNoMod(cur, n) == cur + 1

NextIndex(cur, n) == (cur + 1) % n

\* c.servers[c.current] under RLock.
\* Variant: the server after the cursor is returned.
getCurrentServerOff == IF servers > 0 THEN NextIndex(current, servers) ELSE current

getCurrentServer == current

\* The deadline of a context: none, or the time left until it (in seconds,
\* not yet expired).
NoDeadline == [has |-> FALSE, remaining |-> 0]
Deadline(r) == [has |-> TRUE, remaining |-> r]

\* Lines 80-86 of Do: deadline.Sub(time.Now()) or c.defaultTimeout.
Timeout(dl, def) == IF dl.has THEN dl.remaining ELSE def

Min(a, b) == IF a < b THEN a ELSE b
Max(a, b) == IF a > b THEN a ELSE b

\* Line 87 of Do: math.Max(1.0, math.Min(3.0, float64(len(c.servers)))).
\* Variant: the divider is the number of servers.
TimeoutDividerUnclamped(n) == n

TimeoutDivider(n) == Max(1, Min(3, n))

\* Line 93 of Do: time.Duration(float64(timeout)/timeoutDivider); the
\* conversion drops the fraction of a non-negative quotient.
ServerTimeout(t, d) == t \div d

\* Lines 80-90 of Do: the timeout and its divider, attempt := 1 and
\* s := c.getCurrentServer(); dl is the deadline of ctx.
DoBegin(c, dl) ==
    /\ connState = "ok"
    /\ c \in callers
    /\ pc[c] \in {"idle", "done"}
    /\ calls < MaxCalls
    /\ calls' = calls + 1
    /\ pc' = [pc EXCEPT ![c] = "attempt"]
    /\ attempt' = [attempt EXCEPT ![c] = 1]
    /\ s' = [s EXCEPT ![c] = getCurrentServer]
    /\ startCur' = [startCur EXCEPT ![c] = current]
    /\ tried' = [tried EXCEPT ![c] = <<>>]
    /\ rot' = [rot EXCEPT ![c] = 0]
    /\ curAtRot' = [curAtRot EXCEPT ![c] = <<>>]
    /\ okAt' = [okAt EXCEPT ![c] = 0]
    /\ writtenAt' = [writtenAt EXCEPT ![c] = 0]
    /\ cancelAt' = [cancelAt EXCEPT ![c] = 0]
    /\ prefails' = [prefails EXCEPT ![c] = 0]
    /\ ret' = [ret EXCEPT ![c] = NoRet]
    /\ deadline' = [deadline EXCEPT ![c] = dl]
    /\ timeout' = [timeout EXCEPT ![c] = Timeout(dl, connTimeout)]
    /\ timeoutDivider' = [timeoutDivider EXCEPT ![c] = TimeoutDivider(servers)]
    /\ given' = [given EXCEPT ![c] = <<>>]
    /\ UNCHANGED <<connVars, callers, readers, writer, batchVars, docVars>>

\* Lines 96-123 of Do: what the loop body does with the answer o of s.Do when
\* the local attempt counter is att and the pool has n servers.
\* Variant: the req.Written() test is missing, a written request fails over.
AfterAttemptIgnoreWritten(o, att, n) ==
    IF o.kind = "nil"
    THEN [pc |-> "done", attempt |-> att, ret |-> o]
    ELSE IF o.kind = "canceled"
    THEN [pc |-> "done", attempt |-> att, ret |-> WithStack(o)]
    ELSE IF att + 1 > n
    THEN [pc |-> "done", attempt |-> att + 1, ret |-> WithStack(o)]
    ELSE [pc |-> "rotate", attempt |-> att + 1, ret |-> NoRet]

\* Variant: the driver.IsCanceled test is missing.
AfterAttemptRetryCanceled(o, att, n) ==
    IF o.kind = "nil"
    THEN [pc |-> "done", attempt |-> att, ret |-> o]
    ELSE IF o.written
    THEN IF o.kind = "arango"
         THEN [pc |-> "done", attempt |-> att, ret |-> WithStack(o)]
         ELSE [pc |-> "done", attempt |-> att, ret |-> WithStack(ResponseError(o))]
    ELSE IF att + 1 > n
    THEN [pc |-> "done", attempt |-> att + 1, ret |-> WithStack(o)]
    ELSE [pc |-> "rotate", attempt |-> att + 1, ret |-> NoRet]

\* Variant: the loop gives up one attempt early (attempt >= len(c.servers)).
AfterAttemptGiveUpEarly(o, att, n) ==
    IF o.kind = "nil"
    THEN [pc |-> "done", attempt |-> att, ret |-> o]
    ELSE IF o.kind = "canceled"
    THEN [pc |-> "done", attempt |-> att, ret |-> WithStack(o)]
    ELSE IF o.written
    THEN IF o.kind = "arango"
         THEN [pc |-> "done", attempt |-> att, ret |-> WithStack(o)]
         ELSE [pc |-> "done", attempt |-> att, ret |-> WithStack(ResponseError(o))]
    ELSE IF att + 1 >= n
    THEN [pc |-> "done", attempt |-> att + 1, ret |-> WithStack(o)]
    ELSE [pc |-> "rotate", attempt |-> att + 1, ret |-> NoRet]

\* Variant: the loop gives up one attempt late (attempt > len(c.servers) + 1).
AfterAttemptOneMore(o, att, n) ==
    IF o.kind = "nil"
    THEN [pc |-> "done", attempt |-> att, ret |-> o]
    ELSE IF o.kind = "canceled"
    THEN [pc |-> "done", attempt |-> att, ret |-> WithStack(o)]
    ELSE IF o.written
    THEN IF o.kind = "arango"
         THEN [pc |-> "done", attempt |-> att, ret |-> WithStack(o)]
         ELSE [pc |-> "done", attempt |-> att, ret |-> WithStack(ResponseError(o))]
    ELSE IF att + 1 > n + 1
    THEN [pc |-> "done", attempt |-> att + 1, ret |-> WithStack(o)]
    ELSE [pc |-> "rotate", attempt |-> att + 1, ret |-> NoRet]

\* Variant: a written ArangoError is wrapped in a ResponseError like any
\* other written error.
AfterAttemptWrapsArango(o, att, n) ==
    IF o.kind = "nil"
    THEN [pc |-> "done", attempt |-> att, ret |-> o]
    ELSE IF o.kind = "canceled"
    THEN [pc |-> "done", attempt |-> att, ret |-> WithStack(o)]
    ELSE IF o.written
    THEN [pc |-> "done", attempt |-> att, ret |-> WithStack(ResponseError(o))]
    ELSE IF att + 1 > n
    THEN [pc |-> "done", attempt |-> att + 1, ret |-> WithStack(o)]
    ELSE [pc |-> "rotate", attempt |-> att + 1, ret |-> NoRet]

AfterAttempt(o, att, n) ==
    IF o.kind = "nil"
    THEN [pc |-> "done", attempt |-> att, ret |-> o]
    ELSE IF o.kind = "canceled"
    THEN [pc |-> "done", attempt |-> att, ret |-> WithStack(o)]
    ELSE IF o.written
    THEN IF o.kind = "arango"
         THEN [pc |-> "done", attempt |-> att, ret |-> WithStack(o)]
         ELSE [pc |-> "done", attempt |-> att, ret |-> WithStack(ResponseError(o))]
    ELSE IF att + 1 > n
    THEN [pc |-> "done", attempt |-> att + 1, ret |-> WithStack(o)]
    ELSE [pc |-> "rotate", attempt |-> att + 1, ret |-> NoRet]

\* Lines 93-122 of Do: one s.Do(serverCtx, req) and the handling of its answer.
ServerDo(c) ==
    /\ pc[c] = "attempt"
    /\ \E o \in Outcomes(s[c], Len(tried[c]) + 1) :
         LET r == AfterAttempt(o, attempt[c], servers) IN
         /\ pc' = [pc EXCEPT ![c] = r.pc]
         /\ attempt' = [attempt EXCEPT ![c] = r.attempt]
         /\ ret' = [ret EXCEPT ![c] = r.ret]
         /\ okAt' = [okAt EXCEPT ![c] = IF o.kind = "nil" /\ @ = 0 THEN o.att ELSE @]
         /\ writtenAt' = [writtenAt EXCEPT ![c] =
                IF o.kind # "nil" /\ o.written /\ @ = 0 THEN o.att ELSE @]
         /\ cancelAt' = [cancelAt EXCEPT ![c] =
                IF o.kind = "canceled" /\ @ = 0 THEN o.att ELSE @]
         /\ prefails' = [prefails EXCEPT ![c] =
                IF o.kind \in {"arango", "other"} /\ ~o.written THEN @ + 1 ELSE @]
    /\ tried' = [tried EXCEPT ![c] = Append(@, s[c])]
    /\ given' = [given EXCEPT ![c] = Append(@, ServerTimeout(timeout[c], timeoutDivider[c]))]
    /\ UNCHANGED <<connVars, callers, calls, s, startCur, rot, curAtRot,
                   deadline, timeout, timeoutDivider, readers, writer, batchVars, docVars>>

\* Line 123 of Do: s = c.getNextServer().
\* Variant: getNextServer advances the cursor but returns the server the
\* cursor pointed at before.
GetNextServerReturnsOld(c) ==
    /\ pc[c] = "rotate"
    /\ current' = NextIndex(current, servers)
    /\ s' = [s EXCEPT ![c] = current]
    /\ rot' = [rot EXCEPT ![c] = @ + 1]
    /\ curAtRot' = [curAtRot EXCEPT ![c] = Append(@, current')]
    /\ pc' = [pc EXCEPT ![c] = "attempt"]
    /\ UNCHANGED <<connState, nArg, tArg, newErr, servers, connTimeout, healthy,
                   callers, calls, attempt, tried, startCur,
                   okAt, writtenAt, cancelAt, prefails, ret,
                   deadline, timeout, timeoutDivider, given, readers, writer,
                   batchVars, docVars>>

GetNextServer(c) ==
    /\ pc[c] = "rotate"
    /\ current' = NextIndex(current, servers)
    /\ s' = [s EXCEPT ![c] = current']
    /\ rot' = [rot EXCEPT ![c] = @ + 1]
    /\ curAtRot' = [curAtRot EXCEPT ![c] = Append(@, current')]
    /\ pc' = [pc EXCEPT ![c] = "attempt"]
    /\ UNCHANGED <<connState, nArg, tArg, newErr, servers, connTimeout, healthy,
                   callers, calls, attempt, tried, startCur,
                   okAt, writtenAt, cancelAt, prefails, ret,
                   deadline, timeout, timeoutDivider, given, readers, writer,
                   batchVars, docVars>>

(* --------------------------- the cursor lock --------------------------- *)
\* The same Do call with the steps of c.mutex (a sync.RWMutex) made visible:
\* getCurrentServer is RLock, read, RUnlock and getNextServer is Lock,
\* advance, Unlock. A caller blocked in RLock or Lock waits in "rlock" or
\* "rotate" until the mutex admits it.

\* Lines 73-90 of Do up to the call of getCurrentServer.
DoEnter(c, dl) ==
    /\ connState = "ok"
    /\ c \in callers
    /\ pc[c] \in {"idle", "done"}
    /\ calls < MaxCalls
    /\ calls' = calls + 1
    /\ pc' = [pc EXCEPT ![c] = "rlock"]
    /\ attempt' = [attempt EXCEPT ![c] = 1]
    /\ tried' = [tried EXCEPT ![c] = <<>>]
    /\ rot' = [rot EXCEPT ![c] = 0]
    /\ curAtRot' = [curAtRot EXCEPT ![c] = <<>>]
    /\ okAt' = [okAt EXCEPT ![c] = 0]
    /\ writtenAt' = [writtenAt EXCEPT ![c] = 0]
    /\ cancelAt' = [cancelAt EXCEPT ![c] = 0]
    /\ prefails' = [prefails EXCEPT ![c] = 0]
    /\ ret' = [ret EXCEPT ![c] = NoRet]
    /\ deadline' = [deadline EXCEPT ![c] = dl]
    /\ timeout' = [timeout EXCEPT ![c] = Timeout(dl, connTimeout)]
    /\ timeoutDivider' = [timeoutDivider EXCEPT ![c] = TimeoutDivider(servers)]
    /\ given' = [given EXCEPT ![c] = <<>>]
    /\ UNCHANGED <<connVars, callers, s, startCur, readers, writer, batchVars, docVars>>

\* Line 151: c.mutex.RLock() returns once no caller holds the mutex for writing.
RLock(c) ==
    /\ pc[c] = "rlock"
    /\ writer = 0
    /\ readers' = readers \cup {c}
    /\ pc' = [pc EXCEPT ![c] = "read"]
    /\ UNCHANGED <<connVars, callers, calls, s, attempt, tried, startCur, rot, curAtRot,
                   okAt, writtenAt, cancelAt, prefails, ret,
                   deadline, timeout, timeoutDivider, given, writer, batchVars, docVars>>

\* Variant: getCurrentServer returns without the deferred RUnlock.
ReadCursorKeepsLock(c) ==
    /\ pc[c] = "read"
    /\ s' = [s EXCEPT ![c] = getCurrentServer]
    /\ startCur' = [startCur EXCEPT ![c] = current]
    /\ pc' = [pc EXCEPT ![c] = "attempt"]
    /\ UNCHANGED <<connVars, callers, calls, attempt, tried, rot, curAtRot,
                   okAt, writtenAt, cancelAt, prefails, ret,
                   deadline, timeout, timeoutDivider, given, readers, writer,
                   batchVars, docVars>>

\* Lines 152-153: return c.servers[c.current], then the deferred RUnlock.
ReadCursor(c) ==
    /\ pc[c] = "read"
    /\ s' = [s EXCEPT ![c] = getCurrentServer]
    /\ startCur' = [startCur EXCEPT ![c] = current]
    /\ readers' = readers \ {c}
    /\ pc' = [pc EXCEPT ![c] = "attempt"]
    /\ UNCHANGED <<connVars, callers, calls, attempt, tried, rot, curAtRot,
                   okAt, writtenAt, cancelAt, prefails, ret,
                   deadline, timeout, timeoutDivider, given, writer, batchVars, docVars>>

\* Line 158: c.mutex.Lock() returns once no caller holds the mutex at all.
Lock(c) ==
    /\ pc[c] = "rotate"
    /\ writer = 0
    /\ readers = {}
    /\ writer' = c
    /\ pc' = [pc EXCEPT ![c] = "locked"]
    /\ UNCHANGED <<connVars, callers, calls, s, attempt, tried, startCur, rot, curAtRot,
                   okAt, writtenAt, cancelAt, prefails, ret,
                   deadline, timeout, timeoutDivider, given, readers, batchVars, docVars>>

\* Lines 160-161: advance the cursor and return the server it points at, then
\* the deferred Unlock.
RotateCursor(c) ==
    /\ pc[c] = "locked"
    /\ current' = NextIndex(current, servers)
    /\ s' = [s EXCEPT ![c] = current']
    /\ rot' = [rot EXCEPT ![c] = @ + 1]
    /\ curAtRot' = [curAtRot EXCEPT ![c] = Append(@, current')]
    /\ writer' = 0
    /\ pc' = [pc EXCEPT ![c] = "attempt"]
    /\ UNCHANGED <<connState, nArg, tArg, newErr, servers, connTimeout, healthy,
                   callers, calls, attempt, tried, startCur,
                   okAt, writtenAt, cancelAt, prefails, ret,
                   deadline, timeout, timeoutDivider, given, readers, batchVars, docVars>>

(* ================== Part 2: batched document operations ================ *)
\* Values of a key handed to a document operation.
KeyValues == {"k", ""}

\* validateKey(key): the error returned for a key ("nil" when it is accepted).
validateKey(key) == IF key = "" THEN "InvalidArgument" ELSE "nil"

\* Sequences over S of length 0..n.
SeqsUpTo(S, n) == UNION {[1..m -> S] : m \in 0..n}

\* One element of the array returned by resp.ParseArrayBody(): its status
\* code, whether ParseBody("", &meta), ParseBody("old", ..) and
\* ParseBody("new", ..) succeed on it, and the key the server reports in it.
ItemShapes ==
    {[status |-> 201, bodyOk |-> TRUE,  oldOk |-> TRUE,  newOk |-> TRUE],
     [status |-> 200, bodyOk |-> TRUE,  oldOk |-> TRUE,  newOk |-> TRUE],
     [status |-> 404, bodyOk |-> TRUE,  oldOk |-> TRUE,  newOk |-> TRUE],
     [status |-> 202, bodyOk |-> FALSE, oldOk |-> TRUE,  newOk |-> TRUE],
     [status |-> 202, bodyOk |-> TRUE,  oldOk |-> FALSE, newOk |-> TRUE],
     [status |-> 201, bodyOk |-> TRUE,  oldOk |-> TRUE,  newOk |-> FALSE]}

\* The server answers position i with key i.
RespArrays(n) ==
    {[i \in 1..Len(sh) |-> [status |-> sh[i].status, bodyOk |-> sh[i].bodyOk,
                            oldOk |-> sh[i].oldOk, newOk |-> sh[i].newOk, key |-> i]] :
        sh \in SeqsUpTo(ItemShapes, n)}

\* resp.CheckStatus(200, 201, 202) of parseResponseArray.
CheckStatusItem(item) == IF item.status \in {200, 201, 202} THEN "nil" ELSE "ArangoError"

\* Lines 447-471 of parseResponseArray: the decoding of one element. cs.old
\* and cs.new are the lengths of the slices given with WithReturnOld and
\* WithReturnNew (-1: not given). meta 0 is the zero DocumentMeta; old/new
\* are the key of the document written to the caller's slot (0: not written);
\* parsed counts the ParseBody calls on the element.
\* Variant: an element whose "old" or "new" field fails to decode loses its
\* metadata.
ParseItemFieldErrorDropsMeta(item, cs) ==
    IF CheckStatusItem(item) # "nil"
    THEN [meta |-> 0, err |-> CheckStatusItem(item), old |-> 0, new |-> 0, parsed |-> 0]
    ELSE IF ~item.bodyOk
    THEN [meta |-> 0, err |-> "ParseError", old |-> 0, new |-> 0, parsed |-> 1]
    ELSE [meta |-> IF (cs.new # -1 /\ ~item.newOk) \/ (cs.old # -1 /\ ~item.oldOk)
                   THEN 0 ELSE item.key,
          err |-> IF cs.new # -1 /\ ~item.newOk THEN "ParseNewError"
                  ELSE IF cs.old # -1 /\ ~item.oldOk THEN "ParseOldError"
                  ELSE "nil",
          old |-> IF cs.old # -1 /\ item.oldOk THEN item.key ELSE 0,
          new |-> IF cs.new # -1 /\ item.newOk THEN item.key ELSE 0,
          parsed |-> 1 + (IF cs.old # -1 THEN 1 ELSE 0) + (IF cs.new # -1 THEN 1 ELSE 0)]

ParseItem(item, cs) ==
    IF CheckStatusItem(item) # "nil"
    THEN [meta |-> 0, err |-> CheckStatusItem(item), old |-> 0, new |-> 0, parsed |-> 0]
    ELSE IF ~item.bodyOk
    THEN [meta |-> 0, err |-> "ParseError", old |-> 0, new |-> 0, parsed |-> 1]
    ELSE [meta |-> item.key,
          err |-> IF cs.new # -1 /\ ~item.newOk THEN "ParseNewError"
                  ELSE IF cs.old # -1 /\ ~item.oldOk THEN "ParseOldError"
                  ELSE "nil",
          old |-> IF cs.old # -1 /\ item.oldOk THEN item.key ELSE 0,
          new |-> IF cs.new # -1 /\ item.newOk THEN item.key ELSE 0,
          parsed |-> 1 + (IF cs.old # -1 THEN 1 ELSE 0) + (IF cs.new # -1 THEN 1 ELSE 0)]

\* Index expressions of the loop body that are out of range for element i:
\* resps[i], returnOldVal.Index(i), returnNewVal.Index(i) (1-based here).
IndexFault(resps, i, cs) ==
    \/ i > Len(resps)
    \/ /\ CheckStatusItem(resps[i]) = "nil"
       /\ resps[i].bodyOk
       /\ \/ cs.old # -1 /\ i > cs.old
          \/ cs.new # -1 /\ i > cs.new

\* What a batched operation hands back; panic is a run-time fault that
\* unwinds the call instead of a return.
NoBatchOut ==
    [err |-> "nil", metas |-> <<>>, errs |-> <<>>, nilSlices |-> TRUE, panic |-> FALSE,
     oldSlots |-> <<>>, newSlots |-> <<>>, parsed |-> <<>>, arrayParsed |-> 0]

BatchError(e) == [NoBatchOut EXCEPT !.err = e]

\* parseResponseArray(resp, count, cs); arr is what resp.ParseArrayBody()
\* gives: its error and the elements.
\* Variant: the loop stops at the first element that has an error.
ParseResponseArrayStopAtError(arr, count, cs) ==
    IF arr.err # "nil"
    THEN [BatchError(arr.err) EXCEPT !.arrayParsed = 1]
    ELSE IF \E i \in 1..count : IndexFault(arr.resps, i, cs)
    THEN [NoBatchOut EXCEPT !.panic = TRUE, !.arrayParsed = 1]
    ELSE LET it(i) == ParseItem(arr.resps[i], cs)
             live(i) == \A j \in 1..(i - 1) : it(j).err = "nil"
         IN [err |-> "nil",
             metas |-> [i \in 1..count |-> IF live(i) THEN it(i).meta ELSE 0],
             errs |-> [i \in 1..count |-> IF live(i) THEN it(i).err ELSE "nil"],
             nilSlices |-> FALSE,
             panic |-> FALSE,
             oldSlots |-> [i \in 1..count |-> IF live(i) THEN it(i).old ELSE 0],
             newSlots |-> [i \in 1..count |-> IF live(i) THEN it(i).new ELSE 0],
             parsed |-> [i \in 1..count |-> IF live(i) THEN it(i).parsed ELSE 0],
             arrayParsed |-> 1]

ParseResponseArray(arr, count, cs) ==
    IF arr.err # "nil"
    THEN [BatchError(arr.err) EXCEPT !.arrayParsed = 1]
    ELSE IF \E i \in 1..count : IndexFault(arr.resps, i, cs)
    THEN [NoBatchOut EXCEPT !.panic = TRUE, !.arrayParsed = 1]
    ELSE LET it(i) == ParseItem(arr.resps[i], cs)
         IN [err |-> "nil",
             metas |-> [i \in 1..count |-> it(i).meta],
             errs |-> [i \in 1..count |-> it(i).err],
             nilSlices |-> FALSE,
             panic |-> FALSE,
             oldSlots |-> [i \in 1..count |-> it(i).old],
             newSlots |-> [i \in 1..count |-> it(i).new],
             parsed |-> [i \in 1..count |-> it(i).parsed],
             arrayParsed |-> 1]

\* A Go slice that may be nil.
NilSlice == [isNil |-> TRUE, v |-> <<>>]
Slice(v) == [isNil |-> FALSE, v |-> v]

\* createMergeArray(keys, revs): the error and the merge array; an entry
\* holds "-" for an element it does not carry.
\* Variant: keys and revisions of different lengths are not rejected, the
\* entries carry the keys only.
createMergeArrayNoLengthCheck(keys, revs) ==
    IF keys.isNil /\ revs.isNil
    THEN [err |-> "nil", arr |-> <<>>]
    ELSE IF revs.isNil
    THEN [err |-> "nil", arr |-> [i \in 1..Len(keys.v) |-> [key |-> keys.v[i], rev |-> "-"]]]
    ELSE IF keys.isNil
    THEN [err |-> "nil", arr |-> [i \in 1..Len(revs.v) |-> [key |-> "-", rev |-> revs.v[i]]]]
    ELSE IF Len(keys.v) # Len(revs.v)
    THEN [err |-> "nil", arr |-> [i \in 1..Len(keys.v) |-> [key |-> keys.v[i], rev |-> "-"]]]
    ELSE [err |-> "nil",
          arr |-> [i \in 1..Len(keys.v) |-> [key |-> keys.v[i], rev |-> revs.v[i]]]]

createMergeArray(keys, revs) ==
    IF keys.isNil /\ revs.isNil
    THEN [err |-> "nil", arr |-> <<>>]
    ELSE IF revs.isNil
    THEN [err |-> "nil", arr |-> [i \in 1..Len(keys.v) |-> [key |-> keys.v[i], rev |-> "-"]]]
    ELSE IF keys.isNil
    THEN [err |-> "nil", arr |-> [i \in 1..Len(revs.v) |-> [key |-> "-", rev |-> revs.v[i]]]]
    ELSE IF Len(keys.v) # Len(revs.v)
    THEN [err |-> "InvalidArgument", arr |-> <<>>]
    ELSE [err |-> "nil",
          arr |-> [i \in 1..Len(keys.v) |-> [key |-> keys.v[i], rev |-> revs.v[i]]]]

\* What the connection and the request do during one batched operation:
\* the errors of conn.NewRequest, req.SetBody / req.SetBodyArray and conn.Do,
\* the status code of the response, the value of cs.okStatus(201, 202) and
\* the outcome of resp.ParseArrayBody().
NoArr == [err |-> "nil", resps |-> <<>>]
Env0 ==
    [newRequestErr |-> "nil", setBodyErr |-> "nil", doErr |-> "nil",
     status |-> 202, okStatus |-> 202, arr |-> NoArr]

\* Variant: the error of the first failed element is handed back as the
\* error of the call, next to the slices.
AfterParseRaisesItemError(p) ==
    IF p.err # "nil" THEN BatchError(WithStack(p.err))
    ELSE IF \E i \in 1..Len(p.errs) : p.errs[i] # "nil"
    THEN [p EXCEPT !.err = p.errs[CHOOSE i \in 1..Len(p.errs) : p.errs[i] # "nil"]]
    ELSE p

\* Lines 194-199 / 300-305: the result of parseResponseArray handed back.
AfterParse(p) == IF p.err # "nil" THEN BatchError(WithStack(p.err)) ELSE p

\* Lines 175-199 of CreateDocuments and 277-305 of UpdateDocuments, after the
\* arguments were accepted: mergeErr is the error of createMergeArray ("nil"
\* for CreateDocuments, which builds none). reqs and doCalls count the calls
\* of conn.NewRequest and conn.Do.
SendAndDecode(in, env, mergeErr) ==
    IF env.newRequestErr # "nil"
    THEN [out |-> BatchError(env.newRequestErr), reqs |-> 1, doCalls |-> 0]
    ELSE IF mergeErr # "nil"
    THEN [out |-> BatchError(mergeErr), reqs |-> 1, doCalls |-> 0]
    ELSE IF env.setBodyErr # "nil"
    THEN [out |-> BatchError(env.setBodyErr), reqs |-> 1, doCalls |-> 0]
    ELSE IF env.doErr # "nil"
    THEN [out |-> BatchError(env.doErr), reqs |-> 1, doCalls |-> 1]
    ELSE IF env.status # env.okStatus
    THEN [out |-> BatchError("ArangoError"), reqs |-> 1, doCalls |-> 1]
    ELSE IF in.cs.silent
    THEN [out |-> NoBatchOut, reqs |-> 1, doCalls |-> 1]
    ELSE [out |-> AfterParse(ParseResponseArray(env.arr, in.count, in.cs)),
          reqs |-> 1, doCalls |-> 1]

\* Lines 167-174 of CreateDocuments: the check of the documents argument.
CreateArgsErr(in) == IF ~in.isArray THEN "InvalidArgument" ELSE "nil"

\* Variant: the number of keys is not compared with the number of updates.
UpdateArgsErrNoCountCheck(in) ==
    IF ~in.isArray THEN "InvalidArgument"
    ELSE IF \E i \in 1..Len(in.keys.v) : validateKey(in.keys.v[i]) # "nil"
    THEN "InvalidArgument"
    ELSE "nil"

\* Variant: the keys are not validated.
UpdateArgsErrNoKeyValidation(in) ==
    IF ~in.isArray THEN "InvalidArgument"
    ELSE IF Len(in.keys.v) # in.count THEN "InvalidArgument"
    ELSE "nil"

\* Lines 261-276 of UpdateDocuments: the checks of keys and updates.
UpdateArgsErr(in) ==
    IF ~in.isArray THEN "InvalidArgument"
    ELSE IF Len(in.keys.v) # in.count THEN "InvalidArgument"
    ELSE IF \E i \in 1..Len(in.keys.v) : validateKey(in.keys.v[i]) # "nil"
    THEN "InvalidArgument"
    ELSE "nil"

\* What createMergeArray returned to the operation that called it (called
\* is FALSE while it was not called).
NoMerge == [called |-> FALSE, err |-> "nil", arr |-> <<>>]
MergeCall(m) == [called |-> TRUE, err |-> m.err, arr |-> m.arr]

\* The outcome r of an operation together with its call of createMergeArray.
WithMerge(r, m) == [out |-> r.out, reqs |-> r.reqs, doCalls |-> r.doCalls, merge |-> m]

CreateDocumentsResult(in, env) ==
    IF CreateArgsErr(in) # "nil"
    THEN [out |-> BatchError(CreateArgsErr(in)), reqs |-> 0, doCalls |-> 0, merge |-> NoMerge]
    ELSE WithMerge(SendAndDecode(in, env, "nil"), NoMerge)

UpdateDocumentsResult(in, env) ==
    IF UpdateArgsErr(in) # "nil"
    THEN [out |-> BatchError(UpdateArgsErr(in)), reqs |-> 0, doCalls |-> 0, merge |-> NoMerge]
    ELSE WithMerge(SendAndDecode(in, env, createMergeArray(in.keys, in.cs.revs).err),
                   IF env.newRequestErr # "nil"
                   THEN NoMerge
                   ELSE MergeCall(createMergeArray(in.keys, in.cs.revs)))

(* ------------------------- inputs of the calls ------------------------ *)
\* Lengths of a slice given with WithReturnOld / WithReturnNew for n items:
\* none (-1), the right one, one too short.
SlotLens(n) == {-1, n} \cup (IF n > 0 THEN {n - 1} ELSE {})

\* cs.Revisions for n keys: nil, n revisions, or one more.
RevChoices(n) == {NilSlice, Slice([i \in 1..n |-> i]), Slice([i \in 1..(n + 1) |-> i])}

Settings(n, revs) ==
    {[silent |-> sl, old |-> o, new |-> nw, revs |-> r] :
        sl \in BOOLEAN, o \in SlotLens(n), nw \in SlotLens(n), r \in revs}

KeySlices == {NilSlice} \cup {Slice(k) : k \in SeqsUpTo(KeyValues, MaxItems)}

\* Status code of the response and value of cs.okStatus(201, 202).
StatusPairs == {[status |-> st, okStatus |-> ok] : st \in {201, 202, 404}, ok \in {201, 202}}

ArrOutcomes ==
    {[err |-> "ParseError", resps |-> <<>>]}
        \cup {[err |-> "nil", resps |-> r] : r \in RespArrays(MaxItems)}

\* The behaviours of connection, request and response that a call with
\* inputs `in` can meet; what the call never consults is left at its default.
Envs(in, argsErr, mergeErr) ==
    IF argsErr # "nil"
    THEN {Env0}
    ELSE {[Env0 EXCEPT !.newRequestErr = "other"]} \cup
         (IF mergeErr # "nil"
          THEN {Env0}
          ELSE {[Env0 EXCEPT !.setBodyErr = "other"]}
               \cup {[Env0 EXCEPT !.doErr = e] : e \in {"canceled", "arango", "other"}}
               \cup {[Env0 EXCEPT !.status = p.status, !.okStatus = p.okStatus, !.arr = a] :
                        p \in {q \in StatusPairs : q.status # q.okStatus}, a \in {NoArr}}
               \cup {[Env0 EXCEPT !.status = p.status, !.okStatus = p.okStatus, !.arr = a] :
                        p \in {q \in StatusPairs : q.status = q.okStatus},
                        a \in IF in.cs.silent THEN {NoArr} ELSE ArrOutcomes})

(* ------------------------------ actions ------------------------------- *)
\* collection.CreateDocuments(ctx, documents)
CreateDocuments ==
    /\ bpc = "idle"
    /\ \E a \in BOOLEAN, n \in 0..MaxItems :
         \E cs \in Settings(n, {NilSlice}) :
           LET in == [isArray |-> a, count |-> n, keys |-> NilSlice, cs |-> cs] IN
           \E env \in Envs(in, CreateArgsErr(in), "nil") :
              /\ bop' = "create"
              /\ bin' = in
              /\ benv' = env
              /\ bout' = CreateDocumentsResult(in, env)
    /\ bpc' = "done"
    /\ UNCHANGED <<connVars, callVars, docVars>>

\* collection.UpdateDocuments(ctx, keys, updates)
UpdateDocuments ==
    /\ bpc = "idle"
    /\ \E a \in BOOLEAN, n \in 0..MaxItems, k \in KeySlices :
         \E cs \in Settings(n, RevChoices(n)) :
           LET in == [isArray |-> a, count |-> n, keys |-> k, cs |-> cs] IN
           \E env \in Envs(in, UpdateArgsErr(in), createMergeArray(k, cs.revs).err) :
              /\ bop' = "update"
              /\ bin' = in
              /\ benv' = env
              /\ bout' = UpdateDocumentsResult(in, env)
    /\ bpc' = "done"
    /\ UNCHANGED <<connVars, callVars, docVars>>

(* ================ Part 3: singular document operations ================= *)
\* What ParseBody(field, dst) stores in dst when it succeeds.
RespField(field) ==
    IF field = "old" THEN "old-doc" ELSE IF field = "new" THEN "new-doc" ELSE "doc"

\* What a singular operation hands back and what it did on the way: meta 0
\* is the zero DocumentMeta; reqs, bodies and doCalls count the calls of
\* conn.NewRequest, req.SetBody and conn.Do; parsed lists the field names
\* given to resp.ParseBody, in order; a slot holds "" while it is not written.
DocOut(meta, err, reqs, bodies, doCalls, parsed, oldSlot, newSlot, resultSlot) ==
    [meta |-> meta, err |-> err, reqs |-> reqs, bodies |-> bodies, doCalls |-> doCalls,
     parsed |-> parsed, oldSlot |-> oldSlot, newSlot |-> newSlot, resultSlot |-> resultSlot]

\* return DocumentMeta{}, WithStack(err) before the response is decoded.
DocFail(err, reqs, bodies, doCalls) ==
    DocOut(0, WithStack(err), reqs, bodies, doCalls, <<>>, "", "", "")

NoDocOut == DocOut(0, "nil", 0, 0, 0, <<>>, "", "", "")

\* resp.CheckStatus(codes...) of a whole response.
CheckStatus(status, codes) == IF status \in codes THEN "nil" ELSE "ArangoError"

\* The blocks "Parse metadata", "Parse returnOld (if needed)" and "Parse
\* returnNew (if needed)" of a mutating operation: wantOld / wantNew say
\* that the operation has the block and that cs.ReturnOld / cs.ReturnNew is
\* not nil.
\* Variant: the returnOld block tests cs.ReturnNew and the returnNew block
\* tests cs.ReturnOld.
DecodeFieldsSwappedTests(env, wantOld, wantNew) ==
    IF ~env.bodyOk
    THEN [meta |-> 0, err |-> WithStack("ParseError"), parsed |-> <<"">>,
          oldSlot |-> "", newSlot |-> ""]
    ELSE IF wantNew /\ ~env.oldOk
    THEN [meta |-> env.key, err |-> WithStack("ParseOldError"), parsed |-> <<"", "old">>,
          oldSlot |-> "", newSlot |-> ""]
    ELSE IF wantOld /\ ~env.newOk
    THEN [meta |-> env.key, err |-> WithStack("ParseNewError"),
          parsed |-> <<"">> \o (IF wantNew THEN <<"old">> ELSE <<>>) \o <<"new">>,
          oldSlot |-> IF wantNew THEN RespField("old") ELSE "", newSlot |-> ""]
    ELSE [meta |-> env.key, err |-> "nil",
          parsed |-> <<"">> \o (IF wantNew THEN <<"old">> ELSE <<>>)
                            \o (IF wantOld THEN <<"new">> ELSE <<>>),
          oldSlot |-> IF wantNew THEN RespField("old") ELSE "",
          newSlot |-> IF wantOld THEN RespField("new") ELSE ""]

\* Variant: the metadata is decoded a second time after the fields.
DecodeFieldsReparsesMeta(env, wantOld, wantNew) ==
    IF ~env.bodyOk
    THEN [meta |-> 0, err |-> WithStack("ParseError"), parsed |-> <<"">>,
          oldSlot |-> "", newSlot |-> ""]
    ELSE IF wantOld /\ ~env.oldOk
    THEN [meta |-> env.key, err |-> WithStack("ParseOldError"), parsed |-> <<"", "old">>,
          oldSlot |-> "", newSlot |-> ""]
    ELSE IF wantNew /\ ~env.newOk
    THEN [meta |-> env.key, err |-> WithStack("ParseNewError"),
          parsed |-> <<"">> \o (IF wantOld THEN <<"old">> ELSE <<>>) \o <<"new">>,
          oldSlot |-> IF wantOld THEN RespField("old") ELSE "", newSlot |-> ""]
    ELSE [meta |-> env.key, err |-> "nil",
          parsed |-> <<"">> \o (IF wantOld THEN <<"old">> ELSE <<>>)
                            \o (IF wantNew THEN <<"new">> ELSE <<>>) \o <<"">>,
          oldSlot |-> IF wantOld THEN RespField("old") ELSE "",
          newSlot |-> IF wantNew THEN RespField("new") ELSE ""]

DecodeFields(env, wantOld, wantNew) ==
    IF ~env.bodyOk
    THEN [meta |-> 0, err |-> WithStack("ParseError"), parsed |-> <<"">>,
          oldSlot |-> "", newSlot |-> ""]
    ELSE IF wantOld /\ ~env.oldOk
    THEN [meta |-> env.key, err |-> WithStack("ParseOldError"), parsed |-> <<"", "old">>,
          oldSlot |-> "", newSlot |-> ""]
    ELSE IF wantNew /\ ~env.newOk
    THEN [meta |-> env.key, err |-> WithStack("ParseNewError"),
          parsed |-> <<"">> \o (IF wantOld THEN <<"old">> ELSE <<>>) \o <<"new">>,
          oldSlot |-> IF wantOld THEN RespField("old") ELSE "", newSlot |-> ""]
    ELSE [meta |-> env.key, err |-> "nil",
          parsed |-> <<"">> \o (IF wantOld THEN <<"old">> ELSE <<>>)
                            \o (IF wantNew THEN <<"new">> ELSE <<>>),
          oldSlot |-> IF wantOld THEN RespField("old") ELSE "",
          newSlot |-> IF wantNew THEN RespField("new") ELSE ""]

\* The decoded fields as the result of a transmitted operation.
Decoded(d, bodies) ==
    DocOut(d.meta, d.err, 1, bodies, 1, d.parsed, d.oldSlot, d.newSlot, "")

\* collection.ReadDocument(ctx, key, result)
ReadDocumentResult(in, env) ==
    IF validateKey(in.key) # "nil" THEN DocFail(validateKey(in.key), 0, 0, 0)
    ELSE IF env.newRequestErr # "nil" THEN DocFail(env.newRequestErr, 1, 0, 0)
    ELSE IF env.doErr # "nil" THEN DocFail(env.doErr, 1, 0, 1)
    ELSE IF CheckStatus(env.status, {200}) # "nil"
    THEN DocFail(CheckStatus(env.status, {200}), 1, 0, 1)
    ELSE IF ~env.bodyOk
    THEN DocOut(0, WithStack("ParseError"), 1, 0, 1, <<"">>, "", "", "")
    ELSE IF ~in.resultNil
    THEN IF ~env.resultOk
         THEN DocOut(env.key, WithStack("ParseResultError"), 1, 0, 1, <<"", "">>, "", "", "")
         ELSE DocOut(env.key, "nil", 1, 0, 1, <<"", "">>, "", "", RespField(""))
    ELSE DocOut(env.key, "nil", 1, 0, 1, <<"">>, "", "", "")

\* collection.CreateDocument(ctx, document)
CreateDocumentResult(in, env) ==
    IF in.payloadNil THEN DocFail("InvalidArgument", 0, 0, 0)
    ELSE IF env.newRequestErr # "nil" THEN DocFail(env.newRequestErr, 1, 0, 0)
    ELSE IF env.setBodyErr # "nil" THEN DocFail(env.setBodyErr, 1, 1, 0)
    ELSE IF env.doErr # "nil" THEN DocFail(env.doErr, 1, 1, 1)
    ELSE IF CheckStatus(env.status, {env.okStatus}) # "nil"
    THEN DocFail(CheckStatus(env.status, {env.okStatus}), 1, 1, 1)
    ELSE IF in.cs.silent THEN DocOut(0, "nil", 1, 1, 1, <<>>, "", "", "")
    ELSE Decoded(DecodeFields(env, FALSE, in.cs.new), 1)

\* collection.UpdateDocument(ctx, key, update)
\* Variant: the key is not validated.
UpdateDocumentResultNoKeyCheck(in, env) ==
    IF in.payloadNil THEN DocFail("InvalidArgument", 0, 0, 0)
    ELSE IF env.newRequestErr # "nil" THEN DocFail(env.newRequestErr, 1, 0, 0)
    ELSE IF env.setBodyErr # "nil" THEN DocFail(env.setBodyErr, 1, 1, 0)
    ELSE IF env.doErr # "nil" THEN DocFail(env.doErr, 1, 1, 1)
    ELSE IF CheckStatus(env.status, {env.okStatus}) # "nil"
    THEN DocFail(CheckStatus(env.status, {env.okStatus}), 1, 1, 1)
    ELSE IF in.cs.silent THEN DocOut(0, "nil", 1, 1, 1, <<>>, "", "", "")
    ELSE Decoded(DecodeFields(env, in.cs.old, in.cs.new), 1)

\* Variant: the update is not tested for nil.
UpdateDocumentResultNoNilCheck(in, env) ==
    IF validateKey(in.key) # "nil" THEN DocFail(validateKey(in.key), 0, 0, 0)
    ELSE IF env.newRequestErr # "nil" THEN DocFail(env.newRequestErr, 1, 0, 0)
    ELSE IF env.setBodyErr # "nil" THEN DocFail(env.setBodyErr, 1, 1, 0)
    ELSE IF env.doErr # "nil" THEN DocFail(env.doErr, 1, 1, 1)
    ELSE IF CheckStatus(env.status, {env.okStatus}) # "nil"
    THEN DocFail(CheckStatus(env.status, {env.okStatus}), 1, 1, 1)
    ELSE IF in.cs.silent THEN DocOut(0, "nil", 1, 1, 1, <<>>, "", "", "")
    ELSE Decoded(DecodeFields(env, in.cs.old, in.cs.new), 1)

\* Variant: cs.Silent is not tested, the response is decoded.
UpdateDocumentResultIgnoresSilent(in, env) ==
    IF validateKey(in.key) # "nil" THEN DocFail(validateKey(in.key), 0, 0, 0)
    ELSE IF in.payloadNil THEN DocFail("InvalidArgument", 0, 0, 0)
    ELSE IF env.newRequestErr # "nil" THEN DocFail(env.newRequestErr, 1, 0, 0)
    ELSE IF env.setBodyErr # "nil" THEN DocFail(env.setBodyErr, 1, 1, 0)
    ELSE IF env.doErr # "nil" THEN DocFail(env.doErr, 1, 1, 1)
    ELSE IF CheckStatus(env.status, {env.okStatus}) # "nil"
    THEN DocFail(CheckStatus(env.status, {env.okStatus}), 1, 1, 1)
    ELSE Decoded(DecodeFields(env, in.cs.old, in.cs.new), 1)

UpdateDocumentResult(in, env) ==
    IF validateKey(in.key) # "nil" THEN DocFail(validateKey(in.key), 0, 0, 0)
    ELSE IF in.payloadNil THEN DocFail("InvalidArgument", 0, 0, 0)
    ELSE IF env.newRequestErr # "nil" THEN DocFail(env.newRequestErr, 1, 0, 0)
    ELSE IF env.setBodyErr # "nil" THEN DocFail(env.setBodyErr, 1, 1, 0)
    ELSE IF env.doErr # "nil" THEN DocFail(env.doErr, 1, 1, 1)
    ELSE IF CheckStatus(env.status, {env.okStatus}) # "nil"
    THEN DocFail(CheckStatus(env.status, {env.okStatus}), 1, 1, 1)
    ELSE IF in.cs.silent THEN DocOut(0, "nil", 1, 1, 1, <<>>, "", "", "")
    ELSE Decoded(DecodeFields(env, in.cs.old, in.cs.new), 1)

\* collection.ReplaceDocument(ctx, key, document)
ReplaceDocumentResult(in, env) ==
    IF validateKey(in.key) # "nil" THEN DocFail(validateKey(in.key), 0, 0, 0)
    ELSE IF in.payloadNil THEN DocFail("InvalidArgument", 0, 0, 0)
    ELSE IF env.newRequestErr # "nil" THEN DocFail(env.newRequestErr, 1, 0, 0)
    ELSE IF env.setBodyErr # "nil" THEN DocFail(env.setBodyErr, 1, 1, 0)
    ELSE IF env.doErr # "nil" THEN DocFail(env.doErr, 1, 1, 1)
    ELSE IF CheckStatus(env.status, {env.okStatus}) # "nil"
    THEN DocFail(CheckStatus(env.status, {env.okStatus}), 1, 1, 1)
    ELSE IF in.cs.silent THEN DocOut(0, "nil", 1, 1, 1, <<>>, "", "", "")
    ELSE Decoded(DecodeFields(env, in.cs.old, in.cs.new), 1)

\* collection.RemoveDocument(ctx, key)
RemoveDocumentResult(in, env) ==
    IF validateKey(in.key) # "nil" THEN DocFail(validateKey(in.key), 0, 0, 0)
    ELSE IF env.newRequestErr # "nil" THEN DocFail(env.newRequestErr, 1, 0, 0)
    ELSE IF env.doErr # "nil" THEN DocFail(env.doErr, 1, 0, 1)
    ELSE IF CheckStatus(env.status, {env.okStatus}) # "nil"
    THEN DocFail(CheckStatus(env.status, {env.okStatus}), 1, 0, 1)
    ELSE IF in.cs.silent THEN DocOut(0, "nil", 1, 0, 1, <<>>, "", "", "")
    ELSE Decoded(DecodeFields(env, in.cs.old, FALSE), 0)

(* -------------------- inputs of the singular calls -------------------- *)
\* Arguments an operation does not take stay at these values.
DocIn0 ==
    [key |-> "k", payloadNil |-> FALSE, resultNil |-> TRUE,
     cs |-> [silent |-> FALSE, old |-> FALSE, new |-> FALSE]]

\* cs.Silent, cs.ReturnOld != nil, cs.ReturnNew != nil; an operation is
\* given only the options it looks at.
DocSettings(hasOld, hasNew) ==
    {[silent |-> sl, old |-> o, new |-> nw] :
        sl \in BOOLEAN,
        o \in (IF hasOld THEN BOOLEAN ELSE {FALSE}),
        nw \in (IF hasNew THEN BOOLEAN ELSE {FALSE})}

\* The server's answer decodes to metadata with key 1.
DocEnv0 ==
    [newRequestErr |-> "nil", setBodyErr |-> "nil", doErr |-> "nil",
     status |-> 202, okStatus |-> 202,
     bodyOk |-> TRUE, oldOk |-> TRUE, newOk |-> TRUE, resultOk |-> TRUE, key |-> 1]

\* Status codes of a response.
DocStatuses == {200, 201, 202, 404}

\* What connection, request and response can do during a singular call:
\* one of the calls fails, or the response arrives with some status and
\* some of its fields decodable. okCodes are the values cs.okStatus can
\* take (the one code ReadDocument checks); hasBody says that the operation
\* calls req.SetBody.
DocEnvs(okCodes, hasBody) ==
    {[DocEnv0 EXCEPT !.newRequestErr = "other"]}
        \cup (IF hasBody THEN {[DocEnv0 EXCEPT !.setBodyErr = "other"]} ELSE {})
        \cup {[DocEnv0 EXCEPT !.doErr = e] : e \in {"canceled", "arango", "other"}}
        \cup {[DocEnv0 EXCEPT !.status = st, !.okStatus = ok, !.bodyOk = b,
                              !.oldOk = o, !.newOk = n, !.resultOk = r] :
                 st \in DocStatuses, ok \in okCodes,
                 b \in BOOLEAN, o \in BOOLEAN, n \in BOOLEAN, r \in BOOLEAN}

(* ------------------------- singular actions --------------------------- *)
\* The call of operation op with arguments `in` under env hands back out.
SingleCall(op, in, env, out) ==
    /\ bpc' = "done"
    /\ bop' = op
    /\ din' = in
    /\ denv' = env
    /\ dout' = out
    /\ UNCHANGED <<connVars, callVars, bin, benv, bout>>

ReadDocument ==
    /\ bpc = "idle"
    /\ \E k \in KeyValues, rn \in BOOLEAN, env \in DocEnvs({200}, FALSE) :
           LET in == [DocIn0 EXCEPT !.key = k, !.resultNil = rn]
           IN  SingleCall("ReadDocument", in, env, ReadDocumentResult(in, env))

CreateDocument ==
    /\ bpc = "idle"
    /\ \E pn \in BOOLEAN, cs \in DocSettings(FALSE, TRUE), env \in DocEnvs({201, 202}, TRUE) :
           LET in == [DocIn0 EXCEPT !.payloadNil = pn, !.cs = cs]
           IN  SingleCall("CreateDocument", in, env, CreateDocumentResult(in, env))

UpdateDocument ==
    /\ bpc = "idle"
    /\ \E k \in KeyValues, pn \in BOOLEAN, cs \in DocSettings(TRUE, TRUE),
          env \in DocEnvs({201, 202}, TRUE) :
           LET in == [DocIn0 EXCEPT !.key = k, !.payloadNil = pn, !.cs = cs]
           IN  SingleCall("UpdateDocument", in, env, UpdateDocumentResult(in, env))

ReplaceDocument ==
    /\ bpc = "idle"
    /\ \E k \in KeyValues, pn \in BOOLEAN, cs \in DocSettings(TRUE, TRUE),
          env \in DocEnvs({201, 202}, TRUE) :
           LET in == [DocIn0 EXCEPT !.key = k, !.payloadNil = pn, !.cs = cs]
           IN  SingleCall("ReplaceDocument", in, env, ReplaceDocumentResult(in, env))

RemoveDocument ==
    /\ bpc = "idle"
    /\ \E k \in KeyValues, cs \in DocSettings(TRUE, FALSE), env \in DocEnvs({200, 202}, FALSE) :
           LET in == [DocIn0 EXCEPT !.key = k, !.cs = cs]
           IN  SingleCall("RemoveDocument", in, env, RemoveDocumentResult(in, env))

(* --------------------------- specifications --------------------------- *)
vars == <<connVars, callVars, batchVars, docVars>>

InitConn ==
    /\ connState = "none"
    /\ nArg = -1
    /\ tArg = -1
    /\ newErr = "nil"
    /\ servers = 0
    /\ current = 0
    /\ connTimeout = 0
    /\ healthy = -1

InitCalls ==
    /\ calls = 0
    /\ pc = [c \in Callers |-> "idle"]
    /\ s = [c \in Callers |-> 0]
    /\ attempt = [c \in Callers |-> 0]
    /\ tried = [c \in Callers |-> <<>>]
    /\ startCur = [c \in Callers |-> 0]
    /\ rot = [c \in Callers |-> 0]
    /\ curAtRot = [c \in Callers |-> <<>>]
    /\ okAt = [c \in Callers |-> 0]
    /\ writtenAt = [c \in Callers |-> 0]
    /\ cancelAt = [c \in Callers |-> 0]
    /\ prefails = [c \in Callers |-> 0]
    /\ ret = [c \in Callers |-> NoRet]
    /\ deadline = [c \in Callers |-> NoDeadline]
    /\ timeout = [c \in Callers |-> 0]
    /\ timeoutDivider = [c \in Callers |-> 1]
    /\ given = [c \in Callers |-> <<>>]
    /\ readers = {}
    /\ writer = 0

InitBatch ==
    /\ bpc = "idle"
    /\ bop = "none"
    /\ bin = [isArray |-> FALSE, count |-> 0, keys |-> NilSlice,
              cs |-> [silent |-> FALSE, old |-> -1, new |-> -1, revs |-> NilSlice]]
    /\ benv = Env0
    /\ bout = [out |-> NoBatchOut, reqs |-> 0, doCalls |-> 0, merge |-> NoMerge]

InitDoc ==
    /\ din = DocIn0
    /\ denv = DocEnv0
    /\ dout = NoDocOut

\* Values of config.DefaultTimeout handed to NewConnection (seconds).
ConfigTimeouts == {0, 90}

\* Deadlines of the contexts handed to Do: none, 7 or 100 seconds away.
CtxDeadlines == {NoDeadline, Deadline(7), Deadline(100)}

\* Several goroutines share the connection.
Init == InitConn /\ InitCalls /\ InitBatch /\ InitDoc /\ callers = Callers

\* A single goroutine uses the connection.
InitSingle == InitConn /\ InitCalls /\ InitBatch /\ InitDoc /\ callers = {1}

\* The shared connection is built with the default timeout and its callers
\* pass contexts without deadline.
Next ==
    \/ \E n \in 0..MaxSharedServers, t \in {0} :
          \E h \in -1..(n - 1) : NewConnection(n, t, h)
    \/ \E c \in Callers, dl \in {NoDeadline} : DoBegin(c, dl)
    \/ \E c \in Callers : ServerDo(c)
    \/ \E c \in Callers : GetNextServer(c)

NextSingle ==
    \/ \E n \in 0..MaxServers, t \in ConfigTimeouts :
          \E h \in -1..(n - 1) : NewConnection(n, t, h)
    \/ \E c \in Callers, dl \in CtxDeadlines : DoBegin(c, dl)
    \/ \E c \in Callers : ServerDo(c)
    \/ \E c \in Callers : GetNextServer(c)

\* One batched document operation on a collection.
NextBatch ==
    \/ CreateDocuments
    \/ UpdateDocuments

\* One document operation on a collection, singular or batched.
NextDocument ==
    \/ ReadDocument
    \/ CreateDocument
    \/ UpdateDocument
    \/ ReplaceDocument
    \/ RemoveDocument
    \/ CreateDocuments
    \/ UpdateDocuments

\* One singular document operation on a collection.
NextSingular ==
    \/ ReadDocument
    \/ CreateDocument
    \/ UpdateDocument
    \/ ReplaceDocument
    \/ RemoveDocument

Spec == Init /\ [][Next]_vars

\* The shared connection with the steps of c.mutex made visible.
NextLock ==
    \/ \E n \in 0..MaxSharedServers, t \in {0} :
          \E h \in -1..(n - 1) : NewConnection(n, t, h)
    \/ \E c \in Callers, dl \in {NoDeadline} : DoEnter(c, dl)
    \/ \E c \in Callers : RLock(c)
    \/ \E c \in Callers : ReadCursor(c)
    \/ \E c \in Callers : ServerDo(c)
    \/ \E c \in Callers : Lock(c)
    \/ \E c \in Callers : RotateCursor(c)

SpecLock == Init /\ [][NextLock]_vars

\* Every endpoint attempt returns, a goroutine that holds c.mutex gets to run
\* and so releases it, and a goroutine blocked in RLock or Lock is woken once
\* the mutex stays free for it.
Fairness ==
    \A c \in Callers :
        /\ WF_vars(ServerDo(c))
        /\ WF_vars(RLock(c))
        /\ WF_vars(ReadCursor(c))
        /\ WF_vars(Lock(c))
        /\ WF_vars(RotateCursor(c))

SpecFair == Init /\ [][NextLock]_vars /\ Fairness

SpecDocument == InitSingle /\ [][NextDocument]_vars

SpecSingular == InitSingle /\ [][NextSingular]_vars

SpecBatch == InitSingle /\ [][NextBatch]_vars

SpecSingle == InitSingle /\ [][NextSingle]_vars

(* ===================== claims on clusterConnection ===================== *)
IsError(r) == r.kind \in {"canceled", "arango", "other"}

\* Every attempt of the (returned) call of c failed, uncanceled, before the
\* request was written.
AllPreFailed(c) == pc[c] = "done" /\ Len(tried[c]) > 0 /\ prefails[c] = Len(tried[c])

\* C1: once an attempt of a Do call has failed with the request written, the
\* call has returned an error, that attempt is its last attempt and the call
\* rotated the cursor only before it; a written failure of the first attempt
\* gives exactly one attempt and no rotation.
C1_NoFailoverAfterWritten ==
    \A c \in Callers : writtenAt[c] > 0 =>
        /\ pc[c] = "done"
        /\ IsError(ret[c])
        /\ ret[c].att = writtenAt[c]
        /\ Len(tried[c]) = writtenAt[c]
        /\ rot[c] = writtenAt[c] - 1

C1_Witness ==
    \E c \in Callers : writtenAt[c] = 1 /\ ret[c].kind = "other" /\ servers >= 2

\* C2: once an attempt of a Do call has failed with a canceled error, written
\* or not, the call has returned that error, still classified as canceled and
\* not wrapped in a ResponseError, with no later attempt and no later rotation.
C2_CanceledReturnsImmediately ==
    \A c \in Callers : cancelAt[c] > 0 =>
        /\ pc[c] = "done"
        /\ ret[c].kind = "canceled"
        /\ ~ret[c].respErr
        /\ ret[c].att = cancelAt[c]
        /\ Len(tried[c]) = cancelAt[c]
        /\ rot[c] = cancelAt[c] - 1

C2_Witness ==
    \E c \in Callers : cancelAt[c] > 0 /\ ret[c].written /\ servers >= 2

C2_WitnessUnwritten ==
    \E c \in Callers : cancelAt[c] > 0 /\ ~ret[c].written /\ servers >= 2

\* C3: with a single caller, an attempt on server i that fails before the
\* request is written, with fewer than N attempts made, is followed by a
\* rotation that leaves the cursor on (i+1) mod N and by an attempt on that
\* server.
C3_NextAttemptOnSuccessor ==
    \A c \in callers :
        /\ \A j \in 1..(Len(tried[c]) - 1) :
              tried[c][j + 1] = (tried[c][j] + 1) % servers
        /\ \A j \in 1..Len(curAtRot[c]) :
              j <= Len(tried[c]) /\ curAtRot[c][j] = (tried[c][j] + 1) % servers
        /\ (Len(tried[c]) > 0 /\ prefails[c] = Len(tried[c]) /\ Len(tried[c]) < servers)
              => pc[c] \in {"rotate", "attempt"}
        /\ (pc[c] = "attempt" /\ Len(tried[c]) > 0)
              => /\ s[c] = (tried[c][Len(tried[c])] + 1) % servers
                 /\ current = s[c]

C3_Witness ==
    \E c \in callers :
        /\ servers = 3
        /\ pc[c] = "attempt"
        /\ Len(tried[c]) = 2
        /\ tried[c][2] = 2
        /\ current = 0

\* C4: with a single caller, a Do call whose attempts all fail before the
\* request is written returns only after N attempts, one on each server, and
\* returns the unwrapped error of attempt N.
C4_AllServersThenLastError ==
    \A c \in callers :
        /\ (Len(tried[c]) > 0 /\ prefails[c] = Len(tried[c]) /\ Len(tried[c]) < servers)
              => pc[c] # "done"
        /\ AllPreFailed(c) =>
              /\ Len(tried[c]) = servers
              /\ {tried[c][j] : j \in 1..Len(tried[c])} = 0..(servers - 1)
              /\ ret[c].kind \in {"arango", "other"}
              /\ ~ret[c].written
              /\ ~ret[c].respErr
              /\ ret[c].att = servers
              /\ ret[c].server = tried[c][Len(tried[c])]

C4_Witness ==
    \E c \in callers : AllPreFailed(c) /\ servers = 3 /\ startCur[c] # 0

\* C5 as stated: with a single caller, after N pre-transmission failures the
\* cursor has wrapped once around the pool and is back on its starting value.
C5_CursorBackAtStart ==
    \A c \in callers : AllPreFailed(c) => current = startCur[c]

\* C5 amended: with a single caller, after N pre-transmission failures the
\* cursor was advanced N-1 positions: it rests on the last server attempted,
\* (start + N - 1) mod N, which is the starting value only when N = 1.
C5_CursorOnLastAttempted ==
    \A c \in callers : AllPreFailed(c) =>
        /\ rot[c] = servers - 1
        /\ current = (startCur[c] + servers - 1) % servers
        /\ current = tried[c][Len(tried[c])]
        /\ (current = startCur[c]) <=> (servers = 1)

C5_Witness ==
    \E c \in callers : AllPreFailed(c) /\ servers = 4 /\ startCur[c] = 3 /\ current = 2

\* C6: a Do call whose first attempt succeeds has returned that response
\* after one attempt on the server the cursor pointed at, and has not rotated
\* the cursor.
C6_FirstSuccessKeepsCursor ==
    \A c \in Callers : okAt[c] = 1 =>
        /\ pc[c] = "done"
        /\ ret[c].kind = "nil"
        /\ ret[c].att = 1
        /\ ret[c].server = startCur[c]
        /\ tried[c] = <<startCur[c]>>
        /\ rot[c] = 0
        /\ curAtRot[c] = <<>>

C6_Witness ==
    \E c \in Callers : okAt[c] = 1 /\ startCur[c] = 1 /\ servers = 2

C8_HealthyServerIsReached ==
    healthy # -1 =>
        \A c \in Callers : (pc[c] = "done" /\ ret[c].kind # "canceled") => ret[c].kind = "nil"

\* C9: NewConnection returns a connection and a nil error for every
\* non-empty list of servers, and no connection and an InvalidArgument error
\* for the empty list.
C9_NewConnectionResult ==
    connState # "none" =>
        IF nArg = 0
        THEN connState = "error" /\ newErr = "InvalidArgument" /\ servers = 0
        ELSE connState = "ok" /\ newErr = "nil" /\ servers = nArg

C9_Witness == connState = "error" /\ nArg = 0

C9_WitnessOk == connState = "ok" /\ nArg = MaxSharedServers

(* ================== claims on the batched operations =================== *)
\* Element `it` of the answered array is rejected by the server / decodes
\* without error under the settings cs.
ItemRejected(it) == it.status \notin {200, 201, 202}
ItemSucceeds(it, cs) ==
    /\ it.status \in {200, 201, 202}
    /\ it.bodyOk
    /\ (cs.old = -1 \/ it.oldOk)
    /\ (cs.new = -1 \/ it.newOk)

\* The batched call was transmitted, its top-level status was accepted, it
\* is not silent, the server answered one element per item and the slices
\* given for the old and new documents have one slot per item.
BatchDecoded ==
    /\ bpc = "done"
    /\ bout.doCalls = 1
    /\ benv.doErr = "nil"
    /\ benv.status = benv.okStatus
    /\ ~bin.cs.silent
    /\ benv.arr.err = "nil"
    /\ Len(benv.arr.resps) = bin.count
    /\ bin.cs.old \in {-1, bin.count}
    /\ bin.cs.new \in {-1, bin.count}

\* Item k of the decoded batch is rejected and every other item succeeds.
OnlyItemFails(k) ==
    /\ BatchDecoded
    /\ k \in 1..bin.count
    /\ ItemRejected(benv.arr.resps[k])
    /\ \A i \in 1..bin.count : i # k => ItemSucceeds(benv.arr.resps[i], bin.cs)

\* C10: a transmitted, accepted, non-silent batched call of N items in which
\* the server rejects item k and accepts all others returns a nil error,
\* metas and errors of length N, errors[k] non-nil with metas[k] zero, and
\* for every other i the metadata of response element i with errors[i] nil.
C10_OneRejectedItem ==
    \A k \in 1..MaxItems : OnlyItemFails(k) =>
        /\ bout.out.err = "nil"
        /\ ~bout.out.panic
        /\ ~bout.out.nilSlices
        /\ Len(bout.out.metas) = bin.count
        /\ Len(bout.out.errs) = bin.count
        /\ bout.out.errs[k] # "nil"
        /\ bout.out.metas[k] = 0
        /\ \A i \in 1..bin.count : i # k =>
              /\ bout.out.metas[i] = benv.arr.resps[i].key
              /\ bout.out.metas[i] # 0
              /\ bout.out.errs[i] = "nil"

C10_Witness ==
    /\ OnlyItemFails(2)
    /\ bin.count = 3
    /\ bop = "update"
    /\ bin.cs.old = 3

\* parseResponseArray ran its loop to the end and the call handed back the
\* two slices.
SlicesReturned ==
    /\ bpc = "done"
    /\ bop \in {"create", "update"}
    /\ bout.out.arrayParsed = 1
    /\ bout.out.err = "nil"
    /\ ~bout.out.panic

\* A requested "old" or "new" field of an accepted element whose metadata
\* decoded fails to decode.
FieldDecodeFails(it, cs) ==
    /\ it.status \in {200, 201, 202}
    /\ it.bodyOk
    /\ \/ cs.old # -1 /\ ~it.oldOk
       \/ cs.new # -1 /\ ~it.newOk

\* C11 as stated: for every index i of a batched result exactly one of
\* metas[i] (non-zero) and errors[i] (non-nil) is set, also for an accepted
\* item whose requested old/new field fails to decode.
C11_ExactlyOneOfMetaAndError ==
    SlicesReturned =>
        \A i \in 1..bin.count :
            (bout.out.metas[i] # 0) # (bout.out.errs[i] # "nil")

\* C11 amended: for every index i of a batched result at least one of
\* metas[i] and errors[i] is set; both are set exactly when the item was
\* accepted, its metadata decoded and a requested old/new field failed to
\* decode (metas[i] then holds the decoded metadata); in every other case
\* exactly one is set.
C11_MetaOrErrorBothOnFieldFailure ==
    SlicesReturned =>
        /\ Len(bout.out.metas) = bin.count
        /\ Len(bout.out.errs) = bin.count
        /\ \A i \in 1..bin.count :
              /\ bout.out.metas[i] # 0 \/ bout.out.errs[i] # "nil"
              /\ (bout.out.metas[i] # 0 /\ bout.out.errs[i] # "nil")
                    <=> FieldDecodeFails(benv.arr.resps[i], bin.cs)
              /\ FieldDecodeFails(benv.arr.resps[i], bin.cs)
                    => bout.out.metas[i] = benv.arr.resps[i].key

C11_Witness ==
    /\ SlicesReturned
    /\ bin.count = 2
    /\ FieldDecodeFails(benv.arr.resps[2], bin.cs)
    /\ bout.out.metas[2] = 2
    /\ bout.out.errs[2] = "ParseOldError"
    /\ bout.out.errs[1] = "nil"

\* C12: UpdateDocuments called with a number of keys different from the
\* number of updates returns an InvalidArgument error and nil slices, and
\* has called neither conn.NewRequest nor conn.Do.
C12_KeyCountMismatchSendsNothing ==
    (bpc = "done" /\ bop = "update" /\ bin.isArray /\ Len(bin.keys.v) # bin.count) =>
        /\ bout.out.err = "InvalidArgument"
        /\ bout.out.nilSlices
        /\ ~bout.out.panic
        /\ bout.reqs = 0
        /\ bout.doCalls = 0

C12_Witness ==
    /\ bpc = "done"
    /\ bop = "update"
    /\ bin.isArray
    /\ bin.count = 3
    /\ bin.keys = Slice(<<"k", "k">>)
    /\ bout.out.err = "InvalidArgument"
    /\ bout.reqs = 0

\* Some element of the answered array has an error of its own.
SomeItemFails ==
    \E i \in 1..bin.count : ParseItem(benv.arr.resps[i], bin.cs).err # "nil"

\* C13: a batched call that returns hands back either a non-nil error with
\* nil metas and nil errors, or a nil error; when elements of the answered
\* array fail, the error of the call is nil and the failures are in the
\* errors slice.
C13_NoPartialThrow ==
    (bpc = "done" /\ bop \in {"create", "update"} /\ ~bout.out.panic) =>
        /\ bout.out.err # "nil" =>
              /\ bout.out.nilSlices
              /\ bout.out.metas = <<>>
              /\ bout.out.errs = <<>>
        /\ (bout.out.arrayParsed = 1 /\ benv.arr.err = "nil" /\ SomeItemFails) =>
              /\ bout.out.err = "nil"
              /\ ~bout.out.nilSlices
              /\ \A i \in 1..bin.count :
                    bout.out.errs[i] = ParseItem(benv.arr.resps[i], bin.cs).err

C13_Witness ==
    /\ bpc = "done"
    /\ bop = "create"
    /\ bin.count = 3
    /\ bout.out.arrayParsed = 1
    /\ bout.out.err = "nil"
    /\ bout.out.errs = <<"ArangoError", "ParseError", "nil">>

C13_WitnessError ==
    /\ bpc = "done"
    /\ bop = "update"
    /\ bout.doCalls = 1
    /\ bout.out.err = "ArangoError"
    /\ bout.out.nilSlices

(* ================== claims on the singular operations ================== *)
\* The singular operations that take a key / a document or update.
KeyedOps == {"ReadDocument", "UpdateDocument", "ReplaceDocument", "RemoveDocument"}
PayloadOps == {"CreateDocument", "UpdateDocument", "ReplaceDocument"}

\* C14: ReadDocument, UpdateDocument, ReplaceDocument and RemoveDocument
\* called with an empty key return the zero metadata and an InvalidArgument
\* error and have called neither conn.NewRequest, req.SetBody nor conn.Do.
C14_EmptyKeySendsNothing ==
    (bpc = "done" /\ bop \in KeyedOps /\ din.key = "") =>
        /\ dout.err = "InvalidArgument"
        /\ dout.meta = 0
        /\ dout.reqs = 0
        /\ dout.bodies = 0
        /\ dout.doCalls = 0
        /\ dout.parsed = <<>>

C14_Witness ==
    /\ bpc = "done"
    /\ bop = "UpdateDocument"
    /\ din.key = ""
    /\ ~din.payloadNil
    /\ dout.err = "InvalidArgument"
    /\ dout.doCalls = 0

C14_WitnessRemove ==
    /\ bpc = "done"
    /\ bop = "RemoveDocument"
    /\ din.key = ""
    /\ dout.err = "InvalidArgument"
    /\ dout.doCalls = 0

\* C15: CreateDocument, UpdateDocument and ReplaceDocument called with a nil
\* document or update (and a valid key where one is taken) return the zero
\* metadata and an InvalidArgument error and have called neither
\* conn.NewRequest, req.SetBody nor conn.Do.
C15_NilPayloadSendsNothing ==
    (bpc = "done" /\ bop \in PayloadOps /\ din.payloadNil /\ din.key # "") =>
        /\ dout.err = "InvalidArgument"
        /\ dout.meta = 0
        /\ dout.reqs = 0
        /\ dout.bodies = 0
        /\ dout.doCalls = 0
        /\ dout.parsed = <<>>

C15_Witness ==
    /\ bpc = "done"
    /\ bop = "UpdateDocument"
    /\ din.key = "k"
    /\ din.payloadNil
    /\ dout.err = "InvalidArgument"
    /\ dout.doCalls = 0

C15_WitnessCreate ==
    /\ bpc = "done"
    /\ bop = "CreateDocument"
    /\ din.payloadNil
    /\ dout.err = "InvalidArgument"
    /\ dout.doCalls = 0

\* The singular operations that change a document.
MutatingOps == {"CreateDocument", "UpdateDocument", "ReplaceDocument", "RemoveDocument"}

\* What singular operation op hands back for arguments `in` under env.
SingularResult(op, in, env) ==
    IF op = "ReadDocument" THEN ReadDocumentResult(in, env)
    ELSE IF op = "CreateDocument" THEN CreateDocumentResult(in, env)
    ELSE IF op = "UpdateDocument" THEN UpdateDocumentResult(in, env)
    ELSE IF op = "ReplaceDocument" THEN ReplaceDocumentResult(in, env)
    ELSE RemoveDocumentResult(in, env)

\* What batched operation op hands back for arguments `in` under env.
BatchedResult(op, in, env) ==
    IF op = "create" THEN CreateDocumentsResult(in, env) ELSE UpdateDocumentsResult(in, env)

\* The singular / batched call got a response with an accepted status.
SingleAccepted ==
    /\ dout.doCalls = 1
    /\ denv.doErr = "nil"
    /\ denv.status = denv.okStatus
BatchAccepted ==
    /\ bout.doCalls = 1
    /\ benv.doErr = "nil"
    /\ benv.status = benv.okStatus

\* C16: a mutating operation called with the silent option makes the same
\* calls of conn.NewRequest, req.SetBody and conn.Do as the same call
\* without the option; when the status of the response is accepted, the
\* singular operation returns the zero metadata and a nil error, the batched
\* operation returns empty metas and errors and a nil error, and neither
\* has called resp.ParseBody or resp.ParseArrayBody or written a slot.
C16_SilentSendsAndSkipsDecoding ==
    /\ (bpc = "done" /\ bop \in MutatingOps /\ din.cs.silent) =>
          LET plain == SingularResult(bop, [din EXCEPT !.cs.silent = FALSE], denv) IN
          /\ dout.reqs = plain.reqs
          /\ dout.bodies = plain.bodies
          /\ dout.doCalls = plain.doCalls
          /\ SingleAccepted =>
                /\ dout.meta = 0
                /\ dout.err = "nil"
                /\ dout.parsed = <<>>
                /\ dout.oldSlot = ""
                /\ dout.newSlot = ""
    /\ (bpc = "done" /\ bop \in {"create", "update"} /\ bin.cs.silent) =>
          LET plain == BatchedResult(bop, [bin EXCEPT !.cs.silent = FALSE], benv) IN
          /\ bout.reqs = plain.reqs
          /\ bout.doCalls = plain.doCalls
          /\ BatchAccepted =>
                /\ bout.out.err = "nil"
                /\ ~bout.out.panic
                /\ bout.out.metas = <<>>
                /\ bout.out.errs = <<>>
                /\ bout.out.arrayParsed = 0
                /\ bout.out.parsed = <<>>
                /\ bout.out.oldSlots = <<>>
                /\ bout.out.newSlots = <<>>

C16_Witness ==
    /\ bpc = "done"
    /\ bop = "UpdateDocument"
    /\ din.cs.silent
    /\ din.cs.old
    /\ SingleAccepted
    /\ dout.bodies = 1
    /\ dout.meta = 0
    /\ dout.err = "nil"

C16_WitnessBatched ==
    /\ bpc = "done"
    /\ bop = "update"
    /\ bin.cs.silent
    /\ bin.count = 2
    /\ BatchAccepted
    /\ bout.out.err = "nil"
    /\ bout.out.nilSlices

\* C17: a non-silent UpdateDocument or ReplaceDocument that returns a nil
\* error has written the "old" field of the response to the return-old slot
\* exactly when return-old was requested and the "new" field to the
\* return-new slot exactly when return-new was requested; in UpdateDocuments
\* every element i that decodes without error has its old / new field in
\* slot i of the requested slices (element i carries key i) and a slice
\* that was not requested has no slot written.
C17_RequestedSlotsWritten ==
    /\ (bpc = "done" /\ bop \in {"UpdateDocument", "ReplaceDocument"}
            /\ dout.doCalls = 1 /\ dout.err = "nil" /\ ~din.cs.silent) =>
          /\ dout.oldSlot = (IF din.cs.old THEN RespField("old") ELSE "")
          /\ dout.newSlot = (IF din.cs.new THEN RespField("new") ELSE "")
          /\ dout.resultSlot = ""
    /\ (SlicesReturned /\ bop = "update") =>
          \A i \in 1..bin.count :
              /\ ItemSucceeds(benv.arr.resps[i], bin.cs) =>
                    /\ bout.out.oldSlots[i] =
                          (IF bin.cs.old # -1 THEN benv.arr.resps[i].key ELSE 0)
                    /\ bout.out.newSlots[i] =
                          (IF bin.cs.new # -1 THEN benv.arr.resps[i].key ELSE 0)
              /\ bin.cs.old = -1 => bout.out.oldSlots[i] = 0
              /\ bin.cs.new = -1 => bout.out.newSlots[i] = 0
              /\ bout.out.oldSlots[i] \in {0, i}
              /\ bout.out.newSlots[i] \in {0, i}

C17_Witness ==
    /\ bpc = "done"
    /\ bop = "UpdateDocument"
    /\ dout.err = "nil"
    /\ ~din.cs.silent
    /\ din.cs.old
    /\ ~din.cs.new
    /\ dout.oldSlot = "old-doc"
    /\ dout.newSlot = ""

C17_WitnessBatched ==
    /\ SlicesReturned
    /\ bop = "update"
    /\ bin.count = 3
    /\ bin.cs.old = -1
    /\ bin.cs.new = 3
    /\ bout.out.newSlots = <<1, 0, 3>>
    /\ bout.out.oldSlots = <<0, 0, 0>>

(* ============ claims on the cursor under concurrent callers ============ *)
\* C18: also when several Do calls run concurrently on one connection, the
\* servers attempted by one call are pairwise distinct.
C18_AttemptsPairwiseDistinct ==
    \A c \in Callers :
        \A i, j \in 1..Len(tried[c]) : i # j => tried[c][i] # tried[c][j]

\* C19 as stated: the step by which a Do call returns success leaves the
\* cursor on the server that served the successful attempt, under every
\* interleaving with other Do calls.
C19_CursorOnServingEndpointAtReturn ==
    [][\A c \in Callers :
          (pc[c] = "attempt" /\ pc'[c] = "done" /\ ret'[c].kind = "nil")
              => current' = ret'[c].server]_vars

\* The value of the cursor that the call of c last obtained, from
\* getCurrentServer or from its latest getNextServer.
LastCursorSeen(c) == IF rot[c] = 0 THEN startCur[c] ELSE curAtRot[c][rot[c]]

\* C19 amended: a Do call that returned success was served by the server
\* the cursor pointed at when the call last read or rotated it, and rotated
\* only before its successful attempt; the cursor still points at that
\* server when no other Do call has run on the connection, while rotations
\* of concurrent calls may have moved it elsewhere.
C19_ServedByLastCursorSeen ==
    \A c \in Callers : okAt[c] > 0 =>
        /\ pc[c] = "done"
        /\ ret[c].kind = "nil"
        /\ ret[c].server = LastCursorSeen(c)
        /\ ret[c].server = tried[c][okAt[c]]
        /\ rot[c] = okAt[c] - 1
        /\ (\A d \in Callers : d # c => pc[d] = "idle") => current = ret[c].server

C19_Witness ==
    \E c \in Callers :
        /\ okAt[c] = 2
        /\ servers = 2
        /\ startCur[c] = 0
        /\ ret[c].server = 1
        /\ current = 1
        /\ \A d \in Callers : d # c => pc[d] = "idle"

C19_WitnessMoved ==
    \E c \in Callers : okAt[c] > 0 /\ current # ret[c].server

\* C20: on a connection with N >= 1 servers the cursor is always an index
\* of the pool, 0 <= current < N, before and after every step of every
\* caller, and a step that changes the cursor changes it to
\* (current + 1) mod N.
C20_CursorInRangeAndStepsByOne ==
    [][/\ connState = "ok" => (servers >= 1 /\ current \in 0..(servers - 1))
       /\ connState' = "ok" => (servers' >= 1 /\ current' \in 0..(servers' - 1))
       /\ current' # current =>
             /\ connState = "ok"
             /\ servers' = servers
             /\ current' = (current + 1) % servers]_vars

\* The cursor wrapped around to 0 while two calls were rotating it.
C20_Witness ==
    /\ connState = "ok"
    /\ servers = 2
    /\ current = 0
    /\ \E c, d \in Callers :
          /\ c # d
          /\ curAtRot[c] = <<1>>
          /\ curAtRot[d] = <<0>>

(* ================== claims on errors, timeouts and locks =============== *)
\* C25: a Do call whose attempt failed, uncanceled, with the request written
\* returns that error: an ArangoError keeps its kind and is not wrapped, any
\* other error is wrapped in a ResponseError; a call that returns because
\* every attempt failed before the request was written returns an error that
\* is not wrapped in a ResponseError.
C25_WrittenErrorWrapping ==
    \A c \in Callers :
        /\ (writtenAt[c] > 0 /\ cancelAt[c] = 0) =>
              /\ pc[c] = "done"
              /\ ret[c].kind \in {"arango", "other"}
              /\ ret[c].written
              /\ ret[c].att = writtenAt[c]
              /\ ret[c].kind = "arango" => ~ret[c].respErr
              /\ ret[c].kind = "other" => ret[c].respErr
        /\ AllPreFailed(c) =>
              /\ ret[c].kind \in {"arango", "other"}
              /\ ~ret[c].written
              /\ ~ret[c].respErr

C25_Witness ==
    \E c \in Callers :
        /\ writtenAt[c] = 2
        /\ ret[c].kind = "arango"
        /\ ~ret[c].respErr

C25_WitnessOther ==
    \E c \in Callers : writtenAt[c] > 0 /\ ret[c].kind = "other" /\ ret[c].respErr

C25_WitnessExhausted ==
    \E c \in Callers : AllPreFailed(c) /\ servers = 2 /\ ret[c].kind = "arango"

\* The status codes the operation accepts for the response as a whole:
\* cs.okStatus(201, 202) of CreateDocuments and UpdateDocuments.
AcceptedByOperation(op) == {201, 202}

\* C26: in a decoded batched response, position i is accepted only if its
\* status is in the accepted set of the operation; for any other status,
\* 200 on a batched create or update included, errors[i] is set and metas[i]
\* is left empty.
C26_ItemStatusAcceptedPerOperation ==
    SlicesReturned =>
        \A i \in 1..bin.count :
            benv.arr.resps[i].status \notin AcceptedByOperation(bop) =>
                /\ bout.out.errs[i] # "nil"
                /\ bout.out.metas[i] = 0

\* Some key of the call fails validateKey.
SomeKeyInvalid == \E i \in 1..Len(bin.keys.v) : validateKey(bin.keys.v[i]) # "nil"

\* C27: UpdateDocuments called with as many keys as updates, at least one of
\* which fails key validation, returns an InvalidArgument error and nil
\* metas and errors slices and has called neither conn.NewRequest nor
\* conn.Do, wherever the bad key stands.
C27_BadKeyFailsWholeBatch ==
    (bpc = "done" /\ bop = "update" /\ bin.isArray
        /\ Len(bin.keys.v) = bin.count /\ SomeKeyInvalid) =>
        /\ bout.out.err = "InvalidArgument"
        /\ bout.out.nilSlices
        /\ bout.out.metas = <<>>
        /\ bout.out.errs = <<>>
        /\ ~bout.out.panic
        /\ bout.reqs = 0
        /\ bout.doCalls = 0

C27_Witness ==
    /\ bpc = "done"
    /\ bop = "update"
    /\ bin.isArray
    /\ bin.count = 3
    /\ bin.keys = Slice(<<"k", "k", "">>)
    /\ bout.out.err = "InvalidArgument"
    /\ bout.reqs = 0

C27_WitnessFirst ==
    /\ bpc = "done"
    /\ bop = "update"
    /\ bin.isArray
    /\ bin.keys = Slice(<<"", "k">>)
    /\ bin.count = 2
    /\ bout.reqs = 0

\* UpdateDocuments called createMergeArray(keys, cs.Revisions).
MergeCalled == bpc = "done" /\ bop = "update" /\ bout.merge.called

\* Both keys and revisions are supplied and their lengths differ.
MergeLengthsDiffer ==
    /\ ~bin.keys.isNil
    /\ ~bin.cs.revs.isNil
    /\ Len(bin.keys.v) # Len(bin.cs.revs.v)

\* The merge array has one entry per key, in input order, entry i with
\* _key = keys[i] and, exactly when revisions are supplied, _rev = revs[i].
OneEntryPerKey ==
    /\ bout.merge.err = "nil"
    /\ Len(bout.merge.arr) = Len(bin.keys.v)
    /\ \A i \in 1..Len(bin.keys.v) :
          /\ bout.merge.arr[i].key = bin.keys.v[i]
          /\ IF bin.cs.revs.isNil
             THEN bout.merge.arr[i].rev = "-"
             ELSE bout.merge.arr[i].rev = bin.cs.revs.v[i]

\* The merge array has one entry per revision, in input order, entry i with
\* _rev = revs[i] and no _key.
OneEntryPerRevision ==
    /\ bout.merge.err = "nil"
    /\ Len(bout.merge.arr) = Len(bin.cs.revs.v)
    /\ \A i \in 1..Len(bin.cs.revs.v) :
          /\ bout.merge.arr[i].key = "-"
          /\ bout.merge.arr[i].rev = bin.cs.revs.v[i]

\* The failure of createMergeArray ends UpdateDocuments before conn.Do.
MergeFailsBeforeSending ==
    /\ bout.merge.err = "InvalidArgument"
    /\ bout.out.err = "InvalidArgument"
    /\ bout.out.nilSlices
    /\ bout.doCalls = 0

\* C28 as stated: createMergeArray fails with InvalidArgument, before any
\* request is sent, when keys and revisions are both supplied with different
\* lengths, and in every other case returns one entry per key.
C28_MergeOneEntryPerKey ==
    MergeCalled =>
        IF MergeLengthsDiffer THEN MergeFailsBeforeSending ELSE OneEntryPerKey

\* C28 amended: createMergeArray fails with InvalidArgument, before any
\* request is sent, when keys and revisions are both supplied with different
\* lengths; when revisions are supplied and keys are not (nil) it returns one
\* entry per revision carrying only _rev = revs[i]; in every other case it
\* returns one entry per key.
C28_MergePerKeyOrPerRevision ==
    MergeCalled =>
        IF MergeLengthsDiffer THEN MergeFailsBeforeSending
        ELSE IF bin.keys.isNil /\ ~bin.cs.revs.isNil THEN OneEntryPerRevision
        ELSE OneEntryPerKey

C28_Witness ==
    /\ MergeCalled
    /\ bin.keys = Slice(<<"k", "k">>)
    /\ bin.cs.revs = Slice(<<1, 2>>)
    /\ bout.merge.arr = <<[key |-> "k", rev |-> 1], [key |-> "k", rev |-> 2]>>
    /\ bout.doCalls = 1

C28_WitnessDiffer ==
    /\ MergeCalled
    /\ MergeLengthsDiffer
    /\ bin.count = 2
    /\ bout.reqs = 1
    /\ bout.doCalls = 0

C28_WitnessNoKeys ==
    /\ MergeCalled
    /\ bin.keys.isNil
    /\ bin.cs.revs = Slice(<<1>>)
    /\ bout.merge.arr = <<[key |-> "-", rev |-> 1]>>

\* The singular / batched operations.
SingularOps ==
    {"ReadDocument", "CreateDocument", "UpdateDocument", "ReplaceDocument", "RemoveDocument"}
BatchedOps == {"create", "update"}

\* C29 as stated: no operation calls a body-parsing method more than once on
\* the same response or on the same element of a batched response.
C29_ParsedAtMostOnce ==
    /\ (bpc = "done" /\ bop \in SingularOps) => Len(dout.parsed) <= 1
    /\ (bpc = "done" /\ bop \in BatchedOps) =>
          /\ bout.out.arrayParsed <= 1
          /\ \A i \in 1..Len(bout.out.parsed) : bout.out.parsed[i] <= 1

\* The calls ParseBody(""), ParseBody("old"), ParseBody("new") in this
\* order, the latter two only when wantOld / wantNew, cut after any call.
FieldCalls(wantOld, wantNew) ==
    LET all == <<"">> \o (IF wantOld THEN <<"old">> ELSE <<>>)
                      \o (IF wantNew THEN <<"new">> ELSE <<>>)
    IN  {SubSeq(all, 1, n) : n \in 0..Len(all)}

\* C29 amended: an operation calls resp.ParseBody at most once for each of
\* the metadata (""), "old" and "new", in this order and the latter two only
\* when return-old / return-new is requested, so up to three times on one
\* response or on one element of a batched response; ReadDocument calls
\* ParseBody("") once for the metadata and a second time when result is not
\* nil; a batched operation calls resp.ParseArrayBody at most once.
C29_ParsedOncePerField ==
    /\ (bpc = "done" /\ bop \in MutatingOps) =>
          dout.parsed \in FieldCalls(din.cs.old, din.cs.new)
    /\ (bpc = "done" /\ bop = "ReadDocument") =>
          /\ dout.parsed \in {<<>>, <<"">>, <<"", "">>}
          /\ Len(dout.parsed) = 2 => ~din.resultNil
          /\ (dout.err = "nil" /\ ~din.resultNil) => Len(dout.parsed) = 2
    /\ (bpc = "done" /\ bop \in BatchedOps) =>
          /\ bout.out.arrayParsed <= 1
          /\ \A i \in 1..Len(bout.out.parsed) :
                bout.out.parsed[i] <= 1 + (IF bin.cs.old # -1 THEN 1 ELSE 0)
                                        + (IF bin.cs.new # -1 THEN 1 ELSE 0)

C29_Witness ==
    /\ bpc = "done"
    /\ bop = "UpdateDocument"
    /\ dout.parsed = <<"", "old", "new">>
    /\ dout.err = "nil"

C29_WitnessRead ==
    /\ bpc = "done"
    /\ bop = "ReadDocument"
    /\ dout.parsed = <<"", "">>
    /\ dout.resultSlot = "doc"

C29_WitnessBatched ==
    /\ bpc = "done"
    /\ bop = "update"
    /\ bout.out.arrayParsed = 1
    /\ bout.out.parsed = <<3, 0>>

\* C30: a batched operation is never unwound by an index out of range in
\* parseResponseArray, whatever the count, the length of the response array
\* and the lengths of the return-old / return-new slices.
C30_NoIndexFault ==
    (bpc = "done" /\ bop \in BatchedOps) => ~bout.out.panic

RECURSIVE SumSeq(_)
SumSeq(q) == IF q = <<>> THEN 0 ELSE Head(q) + SumSeq(Tail(q))

\* C23: the timeouts given to the attempts of one Do call add up to no more
\* than the overall timeout of the call; stated here for the calls whose
\* context has no deadline, where nothing else bounds the attempts.
C23_AttemptTimeoutsWithinTimeout ==
    \A c \in callers : ~deadline[c].has => SumSeq(given[c]) <= timeout[c]

\* C24: the overall timeout of a Do call is the time left until the deadline
\* of its context if it has one, else the default timeout of the connection,
\* which is one minute when the configured value is zero; every attempt of
\* the call is given the timeout T for one server, T/2 for two and T/3 for
\* three or more.
C24_TimeoutAndAttemptTimeout ==
    /\ connState = "ok" => connTimeout = (IF tArg = 0 THEN 60 ELSE tArg)
    /\ \A c \in callers : pc[c] # "idle" =>
          /\ timeout[c] = (IF deadline[c].has THEN deadline[c].remaining ELSE connTimeout)
          /\ Len(given[c]) = Len(tried[c])
          /\ \A j \in 1..Len(given[c]) :
                given[c][j] = (IF servers = 1 THEN timeout[c]
                               ELSE IF servers = 2 THEN timeout[c] \div 2
                               ELSE timeout[c] \div 3)

C24_Witness ==
    \E c \in callers :
        /\ servers = 4
        /\ tArg = 0
        /\ ~deadline[c].has
        /\ given[c] = <<20, 20, 20, 20>>

C24_WitnessDeadline ==
    \E c \in callers :
        /\ servers = 2
        /\ deadline[c] = Deadline(7)
        /\ given[c] = <<3, 3>>

\* C22: provided every endpoint attempt returns, every Do call returns, and
\* no call makes more than N attempts on a pool of N servers, whatever the
\* other callers do to the cursor in between.
C22_DoTerminates ==
    /\ [](\A c \in Callers : Len(tried[c]) <= servers /\ rot[c] <= Len(tried[c]))
    /\ \A c \in Callers : (pc[c] \notin {"idle", "done"}) ~> (pc[c] = "done")

\* A call returned after N attempts while another call rotated the cursor
\* under it.
C22_Witness ==
    \E c, d \in Callers :
        /\ c # d
        /\ servers = 2
        /\ pc[c] = "done"
        /\ tried[c] = <<0, 0>>
        /\ rot[d] > 0

(* ------------------------------ C21 ----------------------------------- *)
\* The callers inside getCurrentServer (between RLock and RUnlock) and inside
\* getNextServer (between Lock and Unlock).
Reading == {c \in Callers : pc[c] = "read"}
Rotating == {c \in Callers : pc[c] = "locked"}

\* c.mutex is held exactly by the callers inside getCurrentServer or
\* getNextServer; in particular a caller whose s.Do is in flight holds nothing.
LockHeldOnlyAroundCursor ==
    /\ readers = Reading
    /\ \A c \in Callers : (writer = c) <=> (c \in Rotating)
    /\ \A c \in Callers : pc[c] = "attempt" => c \notin readers /\ writer # c

\* A rotation excludes every cursor read and every other rotation.
RotationExclusive ==
    /\ Cardinality(Rotating) <= 1
    /\ Rotating # {} => Reading = {}
    /\ writer # 0 => readers = {}

\* A caller that wants to read or rotate the cursor gets the mutex at once
\* whenever no other caller is inside getCurrentServer or getNextServer,
\* however many of them wait on an endpoint.
AttemptsNeverBlockCursor ==
    \A d \in Callers :
        /\ (pc[d] = "rlock" /\ Rotating = {}) => ENABLED RLock(d)
        /\ (pc[d] = "rotate" /\ Rotating = {} /\ Reading = {}) => ENABLED Lock(d)

\* C21: the cursor lock is never held while an endpoint attempt (s.Do) of the
\* holder is in flight, a rotation never overlaps a cursor read or another
\* rotation, and a Do call waiting on an endpoint never keeps another Do call
\* from reading or rotating the cursor.
C21_CursorLockDiscipline ==
    /\ LockHeldOnlyAroundCursor
    /\ RotationExclusive
    /\ AttemptsNeverBlockCursor

\* One call waits on an endpoint while another call rotates the cursor.
C21_Witness ==
    \E c, d \in Callers : pc[c] = "attempt" /\ pc[d] = "locked" /\ writer = d

\* One call waits on an endpoint while another call reads the cursor.
C21_WitnessRead ==
    \E c, d \in Callers : pc[c] = "attempt" /\ pc[d] = "read" /\ d \in readers

\* A rotation waits for a cursor read to finish.
C21_WitnessBlocked ==
    \E c, d \in Callers : pc[c] = "rotate" /\ pc[d] = "read" /\ ~ENABLED Lock(c)

\* Two calls read the cursor at the same time.
C21_WitnessShared == Cardinality(readers) >= 2

====
